---- MODULE Spec2Model ----
(***************************************************************************)
(* Model of the untyped lambda-calculus interpreter (package `untyped`):   *)
(* the lexer and the backtracking recursive-descent parser (parse.py), the *)
(* textual rendering of the AST (ast.py) and the substitution engine and   *)
(* normalizer (eval.py).                                                   *)
(*                                                                         *)
(* Source text is a sequence of one-character strings.  An identifier name *)
(* and a token literal are such sequences too (Python slices of the        *)
(* source).  The `file` argument is passed through unchanged everywhere    *)
(* and is left out; AST nodes keep their kind and children only, because   *)
(* Identifier equality is by name (ast.py:32) and (file, line, col) of a   *)
(* node is never read by the parser or the evaluator.  Tokens and          *)
(* diagnostics keep their (line, col).                                     *)
(***************************************************************************)
EXTENDS Integers, Sequences, FiniteSets, TLC

VARIABLES pc, code, lexed, res, expr, out, orig, round

vars == <<pc, code, lexed, res, expr, out, orig, round>>

(* ------------------------------ bounds --------------------------------- *)
\* longest enumerated source text
MaxLen == 5
\* largest enumerated expression tree (number of nodes)
MaxSize == 6
\* recursion budget of eval: deeper recursion is reported as divergence
EvalFuel == 12

(* ---------------------------- characters ------------------------------- *)
\* parse.py:89, the characters that start an identifier
IdentStart ==
  {"a","b","c","d","e","f","g","h","i","j","k","l","m","n","o","p","q","r",
   "s","t","u","v","w","x","y","z","A","B","C","D","E","F","G","H","I","J",
   "K","L","M","N","O","P","Q","R","S","T","U","V","W","X","Y","Z","_"}

\* parse.py:93, the characters that continue an identifier
IdentCont == IdentStart \cup {"0","1","2","3","4","5","6","7","8","9"}

Min(a, b) == IF a < b THEN a ELSE b

\* Python's s[a:b] for 0 <= a (0-based, end exclusive, clipped to the length)
Slice(s, a, b) == SubSeq(s, a + 1, Min(b, Len(s)))

(* ------------------------------ lexer ---------------------------------- *)
Token(type, value, line, col) ==
  [type |-> type, value |-> value, line |-> line, col |-> col]

\* parse.py:93-95: the value of `col` when the while loop stops; `col` (the
\* column counter) is the index the loop reads the source at
RECURSIVE ScanEnd(_, _)
ScanEnd(src, col) ==
  IF col < Len(src) /\ src[col + 1] \in IdentCont
  THEN ScanEnd(src, col + 1)
  ELSE col

\* parse.py:49-100: the body of `for c in code`, from the i-th character
\* (1-based) on; the loop variable visits every character whatever `cons` is
RECURSIVE TokLoop(_, _, _, _, _, _)
TokLoop(src, i, line, col0, cons0, toks) ==
  IF i > Len(src)
  THEN [kind |-> "ok", tokens |-> toks]
  ELSE
    LET c    == src[i]
        cons == cons0 + 1
        col  == col0 + 1
    IN
    IF c = "\n" THEN TokLoop(src, i + 1, line + 1, 0, cons, toks)
    ELSE IF c = " " THEN TokLoop(src, i + 1, line, col, cons, toks)
    ELSE IF c = "." THEN
      TokLoop(src, i + 1, line, col, cons, Append(toks, Token("DOT", <<c>>, line, col)))
    ELSE IF c = "=" THEN
      TokLoop(src, i + 1, line, col, cons, Append(toks, Token("EQUAL", <<c>>, line, col)))
    ELSE IF c = "(" THEN
      TokLoop(src, i + 1, line, col, cons, Append(toks, Token("L_PAREN", <<c>>, line, col)))
    ELSE IF c = ")" THEN
      TokLoop(src, i + 1, line, col, cons, Append(toks, Token("R_PAREN", <<c>>, line, col)))
    ELSE IF c = "l" /\ Slice(src, cons, cons + 2) = <<"e", "t">> THEN
      TokLoop(src, i + 1, line, col + 2, cons + 2,
              Append(toks, Token("LET", <<"l", "e", "t">>, line, col)))
    ELSE IF c = "w" /\ Slice(src, cons, cons + 4) = <<"h", "e", "r", "e">> THEN
      TokLoop(src, i + 1, line, col + 4, cons + 4,
              Append(toks, Token("WHERE", <<"w", "h", "e", "r", "e">>, line, col)))
    ELSE IF c \in IdentStart THEN
      LET start == cons - 1
          sc    == col
          endc  == ScanEnd(src, col)
          cons2 == cons + (endc - col)
      IN TokLoop(src, i + 1, line, endc, cons2,
                 Append(toks, Token("IDENTIFIER", Slice(src, start, cons2), line, sc)))
    ELSE [kind |-> "ValueError", char |-> c, line |-> line, col |-> col]

\* parse.py:45-102
tokenize(src) == TokLoop(src, 1, 1, 0, 0, <<>>)

(* ------------------------------- AST ----------------------------------- *)
\* ast.py:18-33
Identifier(name) == [kind |-> "Identifier", name |-> name]
\* ast.py:36-46
Lambda(param, body) == [kind |-> "Lambda", param |-> param, body |-> body]
\* ast.py:49-58
Parentheses(e) == [kind |-> "Parentheses", expr |-> e]
\* ast.py:61-73
Apply(func, applicant) == [kind |-> "Apply", func |-> func, applicant |-> applicant]

\* ast.py:26-27, 45-46, 57-58, 70-73: __str__ of the four expression kinds
RECURSIVE Str(_)
Str(e) ==
  CASE e.kind = "Identifier"  -> e.name
    [] e.kind = "Lambda"      -> Str(e.param) \o <<".">> \o Str(e.body)
    [] e.kind = "Parentheses" -> <<"(">> \o Str(e.expr) \o <<")">>
    [] e.kind = "Apply"       ->
         IF e.func.kind = "Lambda"
         THEN <<"(">> \o Str(e.func) \o <<")", " ">> \o Str(e.applicant)
         ELSE Str(e.func) \o <<" ">> \o Str(e.applicant)

(* ------------------------------ parser --------------------------------- *)
\* util/either.py:8-9
Ok(node, next) == [ok |-> TRUE, node |-> node, next |-> next]

\* util/either.py:19-20 around exc.py:5-9; the message is
\* "Expected <expected> but got <got>"
Err(expected, got, line, col) ==
  [ok |-> FALSE, exc |-> FALSE, expected |-> expected, got |-> got,
   line |-> line, col |-> col]

\* an IndexError raised by a list subscript; it unwinds through every caller
Raised == [ok |-> FALSE, exc |-> TRUE]

\* parse.py:19-26; pos is 0-based; tokens[pos-1] follows Python's subscript
\* rule (a negative index counts from the end, out of range raises)
expect(type, tokens, pos) ==
  IF pos >= Len(tokens)
  THEN LET idx == IF pos - 1 < 0 THEN pos - 1 + Len(tokens) ELSE pos - 1
       IN IF idx < 0 \/ idx >= Len(tokens)
          THEN Raised
          ELSE Err(type, "EOF", tokens[idx + 1].line, tokens[idx + 1].col)
  ELSE IF tokens[pos + 1].type # type
  THEN Err(type, tokens[pos + 1].type, tokens[pos + 1].line, tokens[pos + 1].col)
  ELSE [ok |-> TRUE, token |-> tokens[pos + 1]]

RECURSIVE parse_lambda(_, _)
RECURSIVE parse_parentheses(_, _)
RECURSIVE parse_apply(_, _)
RECURSIVE apply_loop(_, _, _, _)
RECURSIVE apply_step(_, _, _, _, _)
RECURSIVE parse_primal_expr(_, _)
RECURSIVE parse_expr(_, _)

\* parse.py:116-120: the match on the body's result; token is the parameter
lambda_match(token, b) ==
  IF ~b.ok THEN b
  ELSE Ok(Lambda(Identifier(token.value), b.node), b.next)

\* parse.py:105-120
parse_lambda(tokens, pos) ==
  LET t == expect("IDENTIFIER", tokens, pos) IN
  IF ~t.ok THEN t
  ELSE
    LET d == expect("DOT", tokens, pos + 1) IN
    IF ~d.ok THEN d
    ELSE lambda_match(t.token, parse_expr(tokens, pos + 2))

\* parse.py:128-138: the match on the inner expression's result, then R_PAREN
parentheses_match(tokens, b) ==
  IF ~b.ok THEN b
  ELSE
    LET r == expect("R_PAREN", tokens, b.next) IN
    IF ~r.ok THEN r
    ELSE Ok(Parentheses(b.node), b.next + 1)

\* parse.py:123-138
parse_parentheses(tokens, pos) ==
  LET l == expect("L_PAREN", tokens, pos) IN
  IF ~l.ok THEN l
  ELSE parentheses_match(tokens, parse_expr(tokens, pos + 1))

\* one more applicant folded to the right: the rest of the chain is parsed
\* first and becomes the applicant
right_fold(func, rest) ==
  IF rest.ok THEN Ok(Apply(func, rest.node), rest.next) ELSE rest

apply_step_right(tokens, func, next, first, a) ==
  IF ~a.ok
  THEN IF a.exc \/ first THEN a ELSE Ok(func, next)
  ELSE right_fold(func, apply_loop(tokens, a.node, a.next, FALSE))

\* parse.py:151-158: the match inside the loop; a is the result of
\* parse_primal_expr(tokens, next) and first is the flag `f`
apply_step(tokens, func, next, first, a) ==
  IF ~a.ok
  THEN IF a.exc \/ first THEN a ELSE Ok(func, next)
  ELSE apply_loop(tokens, Apply(func, a.node), a.next, FALSE)

\* parse.py:150-158: the `while True` loop
apply_loop(tokens, func, next, first) ==
  apply_step(tokens, func, next, first, parse_primal_expr(tokens, next))

\* parse.py:142-148: the match on the first primary expression
apply_match(tokens, p) ==
  IF ~p.ok THEN p
  ELSE apply_loop(tokens, p.node, p.next, TRUE)

\* parse.py:141-158
parse_apply(tokens, pos) == apply_match(tokens, parse_primal_expr(tokens, pos))

\* parse.py:174-178: the last alternative, a bare identifier
primal_identifier(tokens, pos) ==
  LET t == expect("IDENTIFIER", tokens, pos) IN
  IF ~t.ok THEN t
  ELSE Ok(Identifier(t.token.value), pos + 1)

\* parse.py:168-178: the match on the result of parse_parentheses
primal_match_parentheses(tokens, pos, p) ==
  IF p.ok \/ p.exc THEN p
  ELSE primal_identifier(tokens, pos)

\* parse.py:162-178: the match on the result of parse_lambda
primal_match_lambda(tokens, pos, l) ==
  IF l.ok \/ l.exc THEN l
  ELSE primal_match_parentheses(tokens, pos, parse_parentheses(tokens, pos))

\* parse.py:161-178
parse_primal_expr(tokens, pos) ==
  primal_match_lambda(tokens, pos, parse_lambda(tokens, pos))

\* parse.py:182-192: the match on the result of parse_apply
expr_match(tokens, pos, a) ==
  IF a.ok \/ a.exc THEN a
  ELSE parse_primal_expr(tokens, pos)

\* parse.py:181-192
parse_expr(tokens, pos) == expr_match(tokens, pos, parse_apply(tokens, pos))

\* parse.py:221-229: the match on the result of parse_expr
parse_match(tokens, r) ==
  IF r.ok
  THEN IF r.next # Len(tokens)
       THEN [kind |-> "SyntaxError", expected |-> "EOF",
             got |-> tokens[r.next + 1].type,
             line |-> tokens[r.next + 1].line, col |-> tokens[r.next + 1].col]
       ELSE [kind |-> "ok", node |-> r.node]
  ELSE IF r.exc
  THEN [kind |-> "IndexError"]
  ELSE [kind |-> "SyntaxError", expected |-> r.expected, got |-> r.got,
        line |-> r.line, col |-> r.col]

\* parse.py:217-229; the outcome is the returned expression or the exception
\* that leaves parse
parse(src) ==
  LET t == tokenize(src) IN
  IF t.kind # "ok" THEN t
  ELSE parse_match(t.tokens, parse_expr(t.tokens, 0))

(* ------------------------- substitution engine ------------------------- *)
\* eval.py:6-17
RECURSIVE alpha_convert(_, _, _)
alpha_convert(e, old, new) ==
  CASE e.kind = "Identifier"  -> IF e = old THEN new ELSE e
    [] e.kind = "Lambda"      ->
         IF e.param = old THEN e
         ELSE Lambda(e.param, alpha_convert(e.body, old, new))
    [] e.kind = "Parentheses" -> Parentheses(alpha_convert(e.expr, old, new))
    [] e.kind = "Apply"       ->
         Apply(alpha_convert(e.func, old, new), alpha_convert(e.applicant, old, new))

\* Python's str(n) for n >= 0, used by the f-string of eval.py:27
RECURSIVE Dec(_)
Dec(n) ==
  LET d == <<"0","1","2","3","4","5","6","7","8","9">>[(n % 10) + 1]
  IN IF n < 10 THEN <<d>> ELSE Append(Dec(n \div 10), d)

\* eval.py:20-35; known maps an identifier name to its collision counter.
\* The entry `known[param] = 0` of line 30 is written to a dictionary that no
\* later call reads (every recursive call gets a copy made before it), so the
\* Lambda case without a collision returns expr as it is.
RECURSIVE unique_ident(_, _)
unique_ident(e, known) ==
  CASE e.kind = "Lambda" ->
         IF e.param.name \in DOMAIN known
         THEN LET new == Identifier(e.param.name \o <<"$">> \o Dec(known[e.param.name] + 1))
              IN Lambda(new, alpha_convert(e.body, e.param, new))
         ELSE e
    [] e.kind = "Parentheses" -> Parentheses(unique_ident(e.expr, known))
    [] e.kind = "Apply" ->
         Apply(unique_ident(e.func, known), unique_ident(e.applicant, known))
    [] OTHER -> e

\* Python's name.split('$')[0] of eval.py:42
RECURSIVE BeforeDollar(_)
BeforeDollar(name) ==
  IF name = <<>> \/ Head(name) = "$" THEN <<>>
  ELSE <<Head(name)>> \o BeforeDollar(Tail(name))

\* eval.py:38-50
RECURSIVE ununique_ident(_)
ununique_ident(e) ==
  CASE e.kind = "Identifier"  -> Identifier(BeforeDollar(e.name))
    [] e.kind = "Lambda"      -> Lambda(ununique_ident(e.param), ununique_ident(e.body))
    [] e.kind = "Parentheses" -> Parentheses(ununique_ident(e.expr))
    [] e.kind = "Apply"       -> Apply(ununique_ident(e.func), ununique_ident(e.applicant))

\* eval.py:57-68: the closure _walk of apply
RECURSIVE walk(_, _, _)
walk(e, param, applicant) ==
  CASE e.kind = "Identifier"  -> IF e = param THEN applicant ELSE e
    [] e.kind = "Lambda"      ->
         IF param = e.param THEN e
         ELSE Lambda(e.param, walk(e.body, param, applicant))
    [] e.kind = "Parentheses" -> Parentheses(walk(e.expr, param, applicant))
    [] e.kind = "Apply"       ->
         Apply(walk(e.func, param, applicant), walk(e.applicant, param, applicant))

\* apply with the parameter and the applicant exchanged in the substitution
apply_swapped(func, applicant) ==
  LET f == unique_ident(func, [n \in {} |-> 0])
  IN ununique_ident(walk(f.body, applicant, f.param))

\* eval.py:53-70; `known or {}` of line 21 starts from the empty dictionary
apply(func, applicant) ==
  LET f == unique_ident(func, [n \in {} |-> 0])
  IN ununique_ident(walk(f.body, f.param, applicant))

(* ----------------------------- normalizer ------------------------------ *)
\* the outcome of an evaluation that does not return within the budget
Diverged == [kind |-> "Diverged"]

\* eval that leaves the applicant of a stuck application unevaluated
RECURSIVE eval_lazy(_, _)
eval_lazy(e, fuel) ==
  IF fuel = 0 THEN Diverged
  ELSE
    CASE e.kind = "Identifier"  -> e
      [] e.kind = "Lambda"      -> e
      [] e.kind = "Parentheses" -> eval_lazy(e.expr, fuel - 1)
      [] e.kind = "Apply"       ->
           LET func == eval_lazy(e.func, fuel - 1) IN
           IF func.kind = "Diverged" THEN Diverged
           ELSE IF func.kind = "Lambda"
           THEN LET applicant == eval_lazy(e.applicant, fuel - 1) IN
                IF applicant.kind = "Diverged" THEN Diverged
                ELSE eval_lazy(apply(func, applicant), fuel - 1)
           ELSE Apply(func, e.applicant)

\* eval that returns the result of a beta step without evaluating it again
RECURSIVE eval_once(_, _)
eval_once(e, fuel) ==
  IF fuel = 0 THEN Diverged
  ELSE
    CASE e.kind = "Identifier"  -> e
      [] e.kind = "Lambda"      -> e
      [] e.kind = "Parentheses" -> eval_once(e.expr, fuel - 1)
      [] e.kind = "Apply"       ->
           LET func == eval_once(e.func, fuel - 1) IN
           IF func.kind = "Diverged" THEN Diverged
           ELSE
             LET applicant == eval_once(e.applicant, fuel - 1) IN
             IF applicant.kind = "Diverged" THEN Diverged
             ELSE IF func.kind = "Lambda"
             THEN apply(func, applicant)
             ELSE Apply(func, applicant)

\* eval.py:73-87; fuel bounds the depth of the recursion
RECURSIVE eval(_, _)
eval(e, fuel) ==
  IF fuel = 0 THEN Diverged
  ELSE
    CASE e.kind = "Identifier"  -> e
      [] e.kind = "Lambda"      -> e
      [] e.kind = "Parentheses" -> eval(e.expr, fuel - 1)
      [] e.kind = "Apply"       ->
           LET func == eval(e.func, fuel - 1) IN
           IF func.kind = "Diverged" THEN Diverged
           ELSE
             LET applicant == eval(e.applicant, fuel - 1) IN
             IF applicant.kind = "Diverged" THEN Diverged
             ELSE IF func.kind = "Lambda"
             THEN eval(apply(func, applicant), fuel - 1)
             ELSE Apply(func, applicant)

(* ------------------------------ inputs --------------------------------- *)
\* characters of the enumerated source texts
Alphabet == {"x", "y", ".", "(", ")", " ", "\n"}

\* every text over Alphabet of at most n characters
AllStrings(n) == UNION {[1..k -> Alphabet] : k \in 0..n}

\* free identifiers of the worked examples
FreeNames == {"a", "b", "f"}

\* "(x.x) v"
IdSrc(v) == <<"(", "x", ".", "x", ")", " ", v>>
\* "(x.y.x) v w"
KSrc(v, w) == <<"(", "x", ".", "y", ".", "x", ")", " ", v, " ", w>>
\* "(x.(y.x)) y"
CaptureSrc == <<"(", "x", ".", "(", "y", ".", "x", ")", ")", " ", "y">>
\* "f a b"
FabSrc == <<"f", " ", "a", " ", "b">>
\* "x."
DanglingDotSrc == <<"x", ".">>
\* "(x.x x) (x.x x)"
OmegaSrc == <<"(", "x", ".", "x", " ", "x", ")", " ", "(", "x", ".", "x", " ", "x", ")">>

\* the minimal snippet of every token kind (parse.py:11-17)
Snippet ==
  ("IDENTIFIER" :> <<"x">>) @@ ("DOT" :> <<".">>) @@ ("EQUAL" :> <<"=">>)
    @@ ("L_PAREN" :> <<"(">>) @@ ("R_PAREN" :> <<")">>)
    @@ ("LET" :> <<"l", "e", "t">>) @@ ("WHERE" :> <<"w", "h", "e", "r", "e">>)

TokenKinds == DOMAIN Snippet

\* nothing, a space or a newline around a snippet
Padding == {<<>>, <<" ">>, <<"\n">>}

NamedSources ==
  {IdSrc(v) : v \in FreeNames}
    \cup {KSrc(v, w) : v \in FreeNames, w \in FreeNames}
    \cup {pre \o Snippet[k] \o post : pre \in Padding, k \in TokenKinds, post \in Padding}
    \cup {CaptureSrc, FabSrc, DanglingDotSrc, OmegaSrc,
          <<"f", " ", "a">>, <<"f", " ", "(", "a", ")">>, <<"x", "#">>,
          <<"x", "1", " ", "y">>, <<"x", " ", "x", "y">>}

Sources == AllStrings(MaxLen) \cup NamedSources

\* identifiers of the enumerated expression trees
TermNames == {<<"x">>, <<"y">>}

\* every expression tree of exactly n nodes over TermNames
RECURSIVE TermsOfSize(_)
TermsOfSize(n) ==
  IF n = 1 THEN {Identifier(v) : v \in TermNames}
  ELSE {Lambda(Identifier(v), b) : v \in TermNames, b \in TermsOfSize(n - 1)}
         \cup {Parentheses(b) : b \in TermsOfSize(n - 1)}
         \cup UNION {{Apply(f, a) : f \in TermsOfSize(i), a \in TermsOfSize(n - 1 - i)}
                       : i \in 1..(n - 2)}

X == Identifier(<<"x">>)
Y == Identifier(<<"y">>)
\* x.x x
SelfApply == Lambda(X, Apply(X, X))
\* (x.x x) (x.x x), which has no normal form
Omega == Apply(SelfApply, SelfApply)
\* the tree of "(x.(y.x)) y"
CaptureTerm == Apply(Parentheses(Lambda(X, Parentheses(Lambda(Y, X)))), Y)

NamedTerms ==
  {Omega, CaptureTerm,
   Apply(Identifier(<<"f">>), Omega),
   Apply(Lambda(X, Y), Omega),
   Apply(Apply(Lambda(X, Lambda(Y, X)), Identifier(<<"a">>)), Identifier(<<"b">>)),
   Apply(SelfApply, Lambda(Y, Y)),
   Apply(SelfApply, Y),
   Apply(Identifier(<<"f">>), Apply(Lambda(X, X), Identifier(<<"a">>)))}

TermInputs == UNION {TermsOfSize(n) : n \in 1..MaxSize} \cup NamedTerms

(* --------------------------- state machine ----------------------------- *)
None == [kind |-> "none"]

\* a caller holds a source text
Init ==
  /\ pc = "src"
  /\ code \in Sources
  /\ lexed = None
  /\ res = None
  /\ expr = None
  /\ out = None
  /\ orig = None
  /\ round = 0

\* a caller holds an expression tree
InitTerm ==
  /\ pc = "term"
  /\ code = <<>>
  /\ lexed = None
  /\ res = None
  /\ expr \in TermInputs
  /\ out = None
  /\ orig = None
  /\ round = 0

\* a call of tokenize(file, code)
DoTokenize ==
  /\ pc = "src"
  /\ lexed' = tokenize(code)
  /\ pc' = "lexed"
  /\ UNCHANGED <<code, res, expr, out, orig, round>>

\* a call of parse(code)
DoParse ==
  /\ pc = "src"
  /\ res' = parse(code)
  /\ expr' = IF res'.kind = "ok" THEN res'.node ELSE None
  /\ pc' = "parsed"
  /\ UNCHANGED <<code, lexed, out, orig, round>>

\* str(e) of a parsed expression, kept as the next source text
DoStr ==
  /\ pc = "parsed"
  /\ res.kind = "ok"
  /\ round = 0
  /\ code' = Str(expr)
  /\ orig' = expr
  /\ round' = 1
  /\ pc' = "src"
  /\ res' = None
  /\ expr' = None
  /\ UNCHANGED <<lexed, out>>

\* a call of eval(expr)
DoEval ==
  /\ pc \in {"parsed", "term"}
  /\ expr.kind # "none"
  /\ out' = eval(expr, EvalFuel)
  /\ pc' = "evaluated"
  /\ UNCHANGED <<code, lexed, res, expr, orig, round>>

\* a call of apply(func, applicant) on a Lambda
DoApply ==
  /\ pc = "term"
  /\ expr.kind = "Apply"
  /\ expr.func.kind = "Lambda"
  /\ out' = apply(expr.func, expr.applicant)
  /\ pc' = "applied"
  /\ UNCHANGED <<code, lexed, res, expr, orig, round>>

Next == DoTokenize \/ DoParse \/ DoStr \/ DoEval

Spec == Init /\ [][Next]_vars

NextTerm == DoApply \/ DoEval

SpecTerm == InitTerm /\ [][NextTerm]_vars

(* ------------------------ auxiliary definitions ------------------------ *)
\* the names that occur free in an expression
RECURSIVE FV(_)
FV(e) ==
  CASE e.kind = "Identifier"  -> {e.name}
    [] e.kind = "Lambda"      -> FV(e.body) \ {e.param.name}
    [] e.kind = "Parentheses" -> FV(e.expr)
    [] e.kind = "Apply"       -> FV(e.func) \cup FV(e.applicant)

\* the free names of the textbook body[param := applicant]
SubstFV(func, applicant) ==
  (FV(func.body) \ {func.param.name})
    \cup (IF func.param.name \in FV(func.body) THEN FV(applicant) ELSE {})

\* the primary expressions found one after another from position pos
RECURSIVE Primaries(_, _)
RECURSIVE PrimariesAfter(_, _)
PrimariesAfter(tokens, p) ==
  IF p.ok THEN <<p.node>> \o Primaries(tokens, p.next) ELSE <<>>

Primaries(tokens, pos) == PrimariesAfter(tokens, parse_primal_expr(tokens, pos))

\* Apply(...Apply(Apply(p1, p2), p3)..., pn)
RECURSIVE LeftFold(_)
LeftFold(ps) ==
  IF Len(ps) = 1 THEN ps[1]
  ELSE Apply(LeftFold(SubSeq(ps, 1, Len(ps) - 1)), ps[Len(ps)])

\* no application anywhere in e has an application as its applicant
RECURSIVE NoApplyApplicant(_)
NoApplyApplicant(e) ==
  CASE e.kind = "Identifier"  -> TRUE
    [] e.kind = "Lambda"      -> NoApplyApplicant(e.body)
    [] e.kind = "Parentheses" -> NoApplyApplicant(e.expr)
    [] e.kind = "Apply"       ->
         /\ e.applicant.kind # "Apply"
         /\ NoApplyApplicant(e.func)
         /\ NoApplyApplicant(e.applicant)

\* the shape of a normal form or stuck term: no Parentheses and no head redex
\* outside a lambda body
RECURSIVE IsEvalOutput(_)
IsEvalOutput(e) ==
  CASE e.kind = "Identifier"  -> TRUE
    [] e.kind = "Lambda"      -> TRUE
    [] e.kind = "Apply"       ->
         /\ e.func.kind \notin {"Lambda", "Parentheses"}
         /\ IsEvalOutput(e.func)
         /\ IsEvalOutput(e.applicant)
    [] OTHER -> FALSE

\* e without its Parentheses nodes
RECURSIVE StripParens(_)
StripParens(e) ==
  CASE e.kind = "Identifier"  -> e
    [] e.kind = "Lambda"      -> Lambda(e.param, StripParens(e.body))
    [] e.kind = "Parentheses" -> StripParens(e.expr)
    [] e.kind = "Apply"       -> Apply(StripParens(e.func), StripParens(e.applicant))

\* identifier characters that cannot start a keyword
PlainIdentCont == IdentCont \ {"l", "w"}

\* src is made of identifiers separated by spaces and newlines
IsIdentSource(src) ==
  /\ \A i \in 1..Len(src) : src[i] \in PlainIdentCont \cup {" ", "\n"}
  /\ \A i \in 1..Len(src) :
       (src[i] \in PlainIdentCont /\ (i = 1 \/ src[i - 1] \in {" ", "\n"}))
         => src[i] \in IdentStart

\* the last index of the run of identifier characters that starts at i
RECURSIVE RunEnd(_, _)
RunEnd(src, i) ==
  IF i < Len(src) /\ src[i + 1] \in IdentCont THEN RunEnd(src, i + 1) ELSE i

\* the tokens of an identifier source: one per identifier, at the 1-based
\* line and column of its first character
RECURSIVE IdentTokens(_, _, _, _)
IdentTokens(src, i, line, col) ==
  IF i > Len(src) THEN <<>>
  ELSE IF src[i] = "\n" THEN IdentTokens(src, i + 1, line + 1, 1)
  ELSE IF src[i] = " " THEN IdentTokens(src, i + 1, line, col + 1)
  ELSE LET j == RunEnd(src, i)
       IN <<Token("IDENTIFIER", SubSeq(src, i, j), line, col)>>
            \o IdentTokens(src, j + 1, line, col + (j - i + 1))

(* ------------------------------- claims -------------------------------- *)
\* C1: apply(func, applicant) is capture-avoiding substitution: the free
\* names of the result are those of body[param := applicant], so no name free
\* in the applicant is bound by a binder of the body; and evaluating
\* "(x.(y.x)) y" does not yield y.y.
C1_CaptureAvoiding ==
  /\ pc = "applied" => FV(out) = SubstFV(expr.func, expr.applicant)
  /\ (pc = "evaluated" /\ expr = CaptureTerm) => out # Lambda(Y, Y)

\* C2: eval(parse("(x.x) v")) is Identifier(v) and eval(parse("(x.y.x) v w"))
\* is Identifier(v), for free identifiers v, w other than x and y.
C2_BetaExamples ==
  pc = "evaluated" =>
    /\ \A v \in FreeNames : code = IdSrc(v) => out = Identifier(<<v>>)
    /\ \A v, w \in FreeNames : code = KSrc(v, w) => out = Identifier(<<v>>)

C2_Witness ==
  /\ pc = "evaluated"
  /\ code = KSrc("a", "b")
  /\ out = Identifier(<<"a">>)

\* C3: parse returns an expression or fails with a diagnostic that carries a
\* message and a position; no other failure leaves parse.
C3_OnlyDiagnostics ==
  pc = "parsed" => res.kind \in {"ok", "SyntaxError", "ValueError"}

\* C4: a source of identifiers separated by spaces and newlines tokenizes to
\* one IDENTIFIER token per identifier, with the whole identifier as text and
\* the line and column of its first character.
C4_IdentifierTokens ==
  (pc = "lexed" /\ IsIdentSource(code)) =>
    lexed = [kind |-> "ok", tokens |-> IdentTokens(code, 1, 1, 1)]

\* C5: when eval returns for Apply(func, applicant) and the evaluated func is
\* not a Lambda, the result is Apply(eval(func), eval(applicant)); and the
\* applicant is always evaluated: if it diverges, so does the application.
C5_StuckApply ==
  (pc = "evaluated" /\ expr.kind = "Apply") =>
    LET f == eval(expr.func, EvalFuel)
        a == eval(expr.applicant, EvalFuel)
    IN /\ (out.kind # "Diverged" /\ f.kind # "Lambda") => out = Apply(f, a)
       /\ (f.kind = "Diverged" \/ a.kind = "Diverged") => out.kind = "Diverged"

C5_Witness ==
  /\ pc = "evaluated"
  /\ expr.kind = "Apply"
  /\ out.kind = "Apply"
  /\ out.func = eval(expr.func, EvalFuel)
  /\ out.applicant # expr.applicant

\* C6: a parsed source is the left fold of its primary expressions, a single
\* primary expression is returned as it is, no application has an application
\* as its applicant, and "f a b" is Apply(Apply(f, a), b).
C6_LeftAssociative ==
  (pc = "parsed" /\ res.kind = "ok") =>
    LET ps == Primaries(tokenize(code).tokens, 0)
    IN /\ Len(ps) >= 1
       /\ res.node = LeftFold(ps)
       /\ Len(ps) = 1 => res.node = ps[1]
       /\ NoApplyApplicant(res.node)
       /\ code = FabSrc =>
            res.node = Apply(Apply(Identifier(<<"f">>), Identifier(<<"a">>)),
                             Identifier(<<"b">>))

C6_Witness ==
  /\ pc = "parsed"
  /\ res.kind = "ok"
  /\ Len(Primaries(tokenize(code).tokens, 0)) = 3
  /\ res.node.kind = "Apply"
  /\ res.node.func.kind = "Apply"

\* C7: the minimal snippet of every token kind, with or without spaces and
\* newlines around it, tokenizes to exactly one token of that kind whose
\* literal is the snippet, at line 1 column 1 when nothing precedes it.
C7_MinimalSnippets ==
  pc = "lexed" =>
    \A k \in TokenKinds : \A pre \in Padding : \A post \in Padding :
      code = pre \o Snippet[k] \o post =>
        /\ lexed.kind = "ok"
        /\ Len(lexed.tokens) = 1
        /\ lexed.tokens[1].type = k
        /\ lexed.tokens[1].value = Snippet[k]
        /\ pre = <<>> => (lexed.tokens[1].line = 1 /\ lexed.tokens[1].col = 1)

\* C8: parsing the printed form of a parsed expression succeeds and gives the
\* same tree, up to parenthesization.
C8_ReprintRoundTrip ==
  (pc = "parsed" /\ round = 1) =>
    /\ res.kind = "ok"
    /\ StripParens(res.node) = StripParens(orig)

\* C9: parsing "x." fails at the position of the dot (end of input is
\* reported at the last token) with a message that names a token kind
\* expected for the missing body.
C9_DanglingDot ==
  (pc = "parsed" /\ code = DanglingDotSrc) =>
    /\ res.kind = "SyntaxError"
    /\ res.line = 1
    /\ res.col = 2
    /\ res.expected \in {"IDENTIFIER", "L_PAREN"}

\* C10: when eval returns, its result has the shape of a normal form or stuck
\* term and evaluating it again gives the same tree.
C10_EvalIdempotent ==
  (pc = "evaluated" /\ out.kind # "Diverged") =>
    /\ IsEvalOutput(out)
    /\ eval(out, EvalFuel) = out

C10_Witness ==
  /\ pc = "evaluated"
  /\ expr.kind = "Apply"
  /\ eval(expr.func, EvalFuel).kind = "Lambda"
  /\ out.kind = "Apply"
  /\ eval(out, EvalFuel) = out

====
